---- MODULE Spec2Model ----
(***************************************************************************)
(* Model of the vector-store search service of the chat reference backend: *)
(* app/services/vector_stores.py (VectorStoreService) and the /search      *)
(* route of app/routers/vector_stores.py.                                  *)
(*                                                                         *)
(* Floats are modelled in hundredths (similarity 0.91 is 91); NaN and None *)
(* are two reserved values.  Optional[List[str]] is a sequence of length   *)
(* at most one holding the list: <<>> is None, << <<"a">> >> is ["a"].     *)
(***************************************************************************)
EXTENDS Integers, Sequences, FiniteSets, TLC

\* ---------------------------------------------------------------- bounds
MaxK == 2
MaxNegK == 1
MaxRows == 2
MaxDocs == 2
\* pdf_to_pgvector.py reads DEFAULT_BATCH_SIZE from EMBEDDINGS_BATCH_SIZE
\* (20 when unset); the texts of one call number at most MaxTexts.
DEFAULT_BATCH_SIZE == 2
MaxTexts == 4

\* ------------------------------------------------------------ primitives
NaN == 9999
NoneVal == 0 - 9999

ABSENT == "<absent>"
NULL == "<null>"

None == <<>>
Some(l) == <<l>>

\* A test for None alone (is not None): [] passes it.
TruthyUnlessNone(opt) == opt # None

\* Python truthiness of an Optional[List]: None and [] are both falsy.
Truthy(opt) == opt # None /\ opt[1] # <<>>

Elems(s) == {s[i] : i \in 1..Len(s)}

Reverse(s) == [i \in 1..Len(s) |-> s[Len(s) + 1 - i]]

\* A cut that is forgotten: the whole list is returned.
SliceForgotten(s, k) == s

\* Python slicing s[:k], negative k counting from the end.
Slice(s, k) ==
    LET n == Len(s)
        stop == IF k >= 0 THEN (IF k < n THEN k ELSE n)
                ELSE (IF n + k > 0 THEN n + k ELSE 0)
    IN  SubSeq(s, 1, stop)

\* dict.get(key, default): the default is used only when the key is absent.
Get(v, default) == IF v = ABSENT THEN default ELSE v

\* str(uuid.uuid4()): the n-th identifier drawn; two draws never coincide.
UuidPool ==
    << "uuid-01", "uuid-02", "uuid-03", "uuid-04", "uuid-05", "uuid-06",
       "uuid-07", "uuid-08", "uuid-09", "uuid-10", "uuid-11", "uuid-12",
       "uuid-13", "uuid-14", "uuid-15", "uuid-16", "uuid-17", "uuid-18",
       "uuid-19", "uuid-20", "uuid-21", "uuid-22", "uuid-23", "uuid-24",
       "uuid-25", "uuid-26", "uuid-27", "uuid-28", "uuid-29", "uuid-30",
       "uuid-31", "uuid-32", "uuid-33", "uuid-34", "uuid-35", "uuid-36" >>
uuid4(n) == UuidPool[n]

\* ------------------------------------------------- pgvector's arithmetic
Dot(a, b) == a[1] * b[1] + a[2] * b[2]
Norm(a) == CHOOSE n \in 0..5 : n * n = Dot(a, a)

\* embedding <=> query: cosine distance, NaN when either vector is zero.
CosineDistance(a, b) ==
    IF Norm(a) * Norm(b) = 0 THEN NaN
    ELSE 100 - ((100 * Dot(a, b)) \div (Norm(a) * Norm(b)))

\* The distance itself selected as the similarity.
SqlSimilarityIsDistance(embedding, qvec) ==
    IF embedding = <<>> THEN NoneVal ELSE CosineDistance(embedding, qvec)

\* 1 - (embedding <=> '[...]'::vector) AS similarity; NULL for a NULL embedding.
SqlSimilarity(embedding, qvec) ==
    IF embedding = <<>> THEN NoneVal
    ELSE IF CosineDistance(embedding, qvec) = NaN THEN NaN
    ELSE 100 - CosineDistance(embedding, qvec)

\* metadata->>'collection' IN (...)
CollectionClause(row, collection_ids) ==
    /\ row.metadata.form = "dict"
    /\ row.metadata.collection \notin {ABSENT, NULL}
    /\ row.metadata.collection \in Elems(collection_ids)

\* (metadata->'tags' ? 'a' OR metadata->'tags' ? 'b' ...)
TagsClause(row, tags) ==
    /\ row.metadata.form = "dict"
    /\ \E i \in 1..Len(tags) : tags[i] \in Elems(row.metadata.tags)

\* The SQL text is a sequence of tokens.  A filter value is spliced into the
\* text between two quotes ("'" + cid + "'", f"... ? '{tag}'"), so the tokens
\* it contributes are those PostgreSQL's lexer finds in its characters: one
\* word for a value without a quote, several tokens for a value with quotes.
HostileTag == "x' OR 'a'='a"
HostileCollection == "x') OR ('a'='a"
QuotedName == "o'brien"

Lex(value) ==
    IF value = HostileTag
    THEN <<"x", "'", "OR", "'", "a", "'", "=", "'", "a">>
    ELSE IF value = HostileCollection
    THEN <<"x", "'", ")", "OR", "(", "'", "a", "'", "=", "'", "a">>
    ELSE IF value = QuotedName
    THEN <<"o", "'", "brien">>
    ELSE <<value>>

\* ', '.join(["'" + cid + "'" for cid in collection_ids])
RECURSIVE JoinQuoted(_)
JoinQuoted(values) ==
    IF values = <<>> THEN <<>>
    ELSE <<"'">> \o Lex(Head(values)) \o <<"'">>
         \o (IF Tail(values) = <<>> THEN <<>> ELSE <<",">> \o JoinQuoted(Tail(values)))

\* ' OR '.join(f"metadata->'tags' ? '{tag}'" for tag in tags)
RECURSIVE JoinTagConditions(_)
JoinTagConditions(tags) ==
    IF tags = <<>> THEN <<>>
    ELSE <<"TAGS?", "'">> \o Lex(Head(tags)) \o <<"'">>
         \o (IF Tail(tags) = <<>> THEN <<>> ELSE <<"OR">> \o JoinTagConditions(Tail(tags)))

\* where_clauses, joined by AND: the text after WHERE (<<>>: no WHERE).
\* "COLLECTION" stands for metadata->>'collection', "TAGS?" for
\* metadata->'tags' ?.
WhereText(collection_ids, tags) ==
    LET collection_clause ==
            <<"COLLECTION", "IN", "(">> \o JoinQuoted(collection_ids[1]) \o <<")">>
        tags_clause == <<"(">> \o JoinTagConditions(tags[1]) \o <<")">>
    IN  IF Truthy(collection_ids) /\ Truthy(tags)
        THEN collection_clause \o <<"AND">> \o tags_clause
        ELSE IF Truthy(collection_ids) THEN collection_clause
        ELSE IF Truthy(tags) THEN tags_clause
        ELSE <<>>

\* The text handed to cursor.execute: the query vector, the WHERE text and
\* the LIMIT.  No parameter is bound (sql_params is never passed).
SqlText(k, collection_ids, tags, qvec) ==
    [vector |-> qvec, where |-> WhereText(collection_ids, tags), limit |-> k,
     params |-> <<>>]

\* PostgreSQL reading the WHERE text: OR binds weaker than AND; a factor is a
\* parenthesis, an IN list, a ? test or a comparison of two literals.  A row
\* is kept when the condition is true; NULL counts as not true, which decides
\* the same rows since the text has no NOT.  ok is FALSE on a syntax error.
IsWord(t) == t \notin {"'", "(", ")", ",", "OR", "AND", "IN", "=", "COLLECTION", "TAGS?"}

SyntaxError == [ok |-> FALSE, val |-> FALSE, rest |-> <<>>]

ParseLit(ts) ==
    IF Len(ts) >= 3 /\ ts[1] = "'" /\ IsWord(ts[2]) /\ ts[3] = "'"
    THEN [ok |-> TRUE, lit |-> ts[2], rest |-> SubSeq(ts, 4, Len(ts))]
    ELSE [ok |-> FALSE, lit |-> "", rest |-> <<>>]

RECURSIVE ParseLits(_)

\* lit [, lits]
MoreLits(l) ==
    IF ~l.ok THEN [ok |-> FALSE, lits |-> <<>>, rest |-> <<>>]
    ELSE IF l.rest # <<>> /\ l.rest[1] = ","
    THEN [ParseLits(Tail(l.rest)) EXCEPT !.lits = <<l.lit>> \o @]
    ELSE [ok |-> TRUE, lits |-> <<l.lit>>, rest |-> l.rest]

ParseLits(ts) == MoreLits(ParseLit(ts))

\* Parse(level, ts, row): level "expr" is term {OR term}, "term" is
\* factor {AND factor}, "factor" is the rest.  The result is ok, the value
\* for the row and the tokens left.
RECURSIVE Parse(_, _, _)

\* t [OR expr] and f [AND term]
OrMore(t, row) ==
    IF t.ok /\ t.rest # <<>> /\ t.rest[1] = "OR"
    THEN [Parse("expr", Tail(t.rest), row) EXCEPT !.val = t.val \/ @]
    ELSE t

AndMore(f, row) ==
    IF f.ok /\ f.rest # <<>> /\ f.rest[1] = "AND"
    THEN [Parse("term", Tail(f.rest), row) EXCEPT !.val = f.val /\ @]
    ELSE f

\* ( expr )
Closed(e) ==
    IF e.ok /\ e.rest # <<>> /\ e.rest[1] = ")"
    THEN [e EXCEPT !.rest = Tail(e.rest)]
    ELSE SyntaxError

\* COLLECTION IN ( 'a', 'b' )
InList(l, row) ==
    IF l.ok /\ l.rest # <<>> /\ l.rest[1] = ")"
    THEN [ok |-> TRUE, val |-> CollectionClause(row, l.lits), rest |-> Tail(l.rest)]
    ELSE SyntaxError

\* TAGS? 'a'
HasKey(l, row) ==
    IF l.ok
    THEN [ok |-> TRUE, val |-> TagsClause(row, <<l.lit>>), rest |-> l.rest]
    ELSE SyntaxError

\* 'a' = 'b'
EqualsLit(a, b) ==
    IF b.ok THEN [ok |-> TRUE, val |-> a.lit = b.lit, rest |-> b.rest]
    ELSE SyntaxError

Comparison(a) ==
    IF a.ok /\ a.rest # <<>> /\ a.rest[1] = "="
    THEN EqualsLit(a, ParseLit(Tail(a.rest)))
    ELSE SyntaxError

Parse(level, ts, row) ==
    IF level = "expr" THEN OrMore(Parse("term", ts, row), row)
    ELSE IF level = "term" THEN AndMore(Parse("factor", ts, row), row)
    ELSE IF ts = <<>> THEN SyntaxError
    ELSE IF ts[1] = "(" THEN Closed(Parse("expr", Tail(ts), row))
    ELSE IF ts[1] = "COLLECTION"
    THEN IF Len(ts) >= 3 /\ ts[2] = "IN" /\ ts[3] = "("
         THEN InList(ParseLits(SubSeq(ts, 4, Len(ts))), row)
         ELSE SyntaxError
    ELSE IF ts[1] = "TAGS?" THEN HasKey(ParseLit(Tail(ts)), row)
    ELSE Comparison(ParseLit(ts))

\* The whole text was read.
Whole(e) == [ok |-> e.ok /\ e.rest = <<>>, val |-> e.ok /\ e.rest = <<>> /\ e.val]

\* The WHERE text applied to a row: ok (the text is well formed) and val
\* (the row is kept).
EvalWhere(where, row) ==
    IF where = <<>> THEN [ok |-> TRUE, val |-> TRUE]
    ELSE Whole(Parse("expr", where, row))

\* cursor.execute(sql) raises on a text PostgreSQL cannot parse.
SqlSyntaxOk(where) ==
    EvalWhere(where, [metadata |-> [form |-> "dict", collection |-> ABSENT,
                                    tags |-> <<>>]]).ok

\* ORDER BY similarity DESC: NULLs first, then NaN (greater than every number),
\* then the numbers downwards.
SqlBefore(a, b) ==
    IF a = NoneVal THEN b # NoneVal
    ELSE IF b = NoneVal THEN FALSE
    ELSE IF a = NaN THEN b # NaN
    ELSE IF b = NaN THEN FALSE
    ELSE a > b

RECURSIVE SqlInsert(_, _)
SqlInsert(sorted, r) ==
    IF sorted = <<>> THEN <<r>>
    ELSE IF SqlBefore(r.similarity, Head(sorted).similarity)
         THEN <<r>> \o sorted
         ELSE <<Head(sorted)>> \o SqlInsert(Tail(sorted), r)

RECURSIVE SqlOrderBy(_)
SqlOrderBy(rows) ==
    IF rows = <<>> THEN <<>>
    ELSE LET n == Len(rows)
         IN  SqlInsert(SqlOrderBy(SubSeq(rows, 1, n - 1)), rows[n])

\* SELECT ... FROM documents [WHERE ...] ORDER BY similarity DESC LIMIT k
\* (k >= 0; PostgreSQL rejects a negative LIMIT, see _direct_pgvector_search).
SqlQuery(tbl, qvec, k, collection_ids, tags) ==
    LET scored == [i \in 1..Len(tbl) |->
                     [content |-> tbl[i].content,
                      metadata |-> tbl[i].metadata,
                      similarity |-> SqlSimilarity(tbl[i].embedding, qvec)]]
        where == WhereText(collection_ids, tags)
        kept == SelectSeq(scored, LAMBDA r : EvalWhere(where, r).val)
    IN  SubSeq(SqlOrderBy(kept), 1, IF k < Len(kept) THEN k ELSE Len(kept))

\* ------------------------------------------------------ Python list.sort
\* Float comparison: every comparison with NaN is False.
PyLT(a, b) == a # NaN /\ b # NaN /\ a < b

\* count_run of CPython's listsort: the length of the run starting the list,
\* ascending (a[i] >= a[i-1]) or strictly descending (a[i] < a[i-1]).
RECURSIVE RunEnd(_, _, _)
RunEnd(keys, i, descending) ==
    IF i > Len(keys) THEN i - 1
    ELSE IF PyLT(keys[i], keys[i - 1]) = descending
         THEN RunEnd(keys, i + 1, descending)
         ELSE i - 1

\* binarysort: where the pivot goes among the sorted items l..r-1.
RECURSIVE BinaryPos(_, _, _, _)
BinaryPos(items, pivot, l, r) ==
    IF l >= r THEN l
    ELSE LET p == l + ((r - l) \div 2)
         IN  IF PyLT(pivot.similarity, items[p].similarity)
             THEN BinaryPos(items, pivot, l, p)
             ELSE BinaryPos(items, pivot, p + 1, r)

RECURSIVE BinarySort(_, _)
BinarySort(items, start) ==
    IF start > Len(items) THEN items
    ELSE LET pivot == items[start]
             pos == BinaryPos(items, pivot, 1, start)
             moved == SubSeq(items, 1, pos - 1) \o <<pivot>>
                      \o SubSeq(items, pos, start - 1)
                      \o SubSeq(items, start + 1, Len(items))
         IN  BinarySort(moved, start + 1)

\* list.sort(key=lambda x: x.similarity) for fewer than 64 items: one run is counted (reversed
\* when descending) and the rest is inserted by binary insertion.
ListSortAscending(items) ==
    IF Len(items) < 2 THEN items
    ELSE LET keys == [i \in 1..Len(items) |-> items[i].similarity]
             descending == PyLT(keys[2], keys[1])
             n == RunEnd(keys, 3, descending)
             run == SubSeq(items, 1, n)
             first == (IF descending THEN Reverse(run) ELSE run)
                      \o SubSeq(items, n + 1, Len(items))
         IN  BinarySort(first, n + 1)

\* list.sort(key=lambda x: x.similarity, reverse=True): reverse, sort ascending, reverse again
\* (which keeps the original order among equal keys).
ListSortReverse(items) ==
    Reverse(ListSortAscending(Reverse(items)))

\* ---------------------------------------------------- pydantic's models
\* DocumentMetadata(documentId: str, chunkId: str, ...): None is rejected.
DocumentMetadataValid(documentId, chunkId) ==
    documentId # NULL /\ chunkId # NULL

\* DocumentResponse(similarity: float): None is rejected, NaN is accepted.
DocumentResponseValid(similarity) == similarity # NoneVal

\* Identifiers generated for every match, the stored ones ignored.
DocumentResponseAlwaysGenerated(content, md, n, similarity, source_id, source_name, source_type) ==
    [content |-> content,
     documentId |-> uuid4(n + 1),
     documentName |-> Get(md.documentName, "Unknown Document"),
     chunkId |-> uuid4(n + 2),
     tags |-> md.tags,
     source_id |-> source_id,
     source_name |-> source_name,
     source_type |-> source_type,
     similarity |-> similarity]

\* DocumentMetadata(...) and DocumentResponse(...) of one record; n identifiers
\* were drawn before it, and uuid4 is called for both defaults.
DocumentResponse(content, md, n, similarity, source_id, source_name, source_type) ==
    [content |-> content,
     documentId |-> Get(md.documentId, uuid4(n + 1)),
     documentName |-> Get(md.documentName, "Unknown Document"),
     chunkId |-> Get(md.chunkId, uuid4(n + 2)),
     tags |-> md.tags,
     source_id |-> source_id,
     source_name |-> source_name,
     source_type |-> source_type,
     similarity |-> similarity]

EmptyMetadata ==
    [form |-> "dict", documentId |-> ABSENT, documentName |-> ABSENT,
     chunkId |-> ABSENT, collection |-> ABSENT, tags |-> <<>>]

\* ------------------------------------------- _direct_pgvector_search
\* What json/psycopg2 hand back for the metadata column: a dict is used as it
\* is, a falsy value becomes {}, anything else fails to parse (form "other").
RowMetadata(row) ==
    IF row.metadata.form = "dict" THEN row.metadata ELSE EmptyMetadata

\* The body of the per-row try block: TRUE when no statement of it raises.
RowParses(row) ==
    /\ row.metadata.form \in {"dict", "falsy"}
    /\ DocumentMetadataValid(RowMetadata(row).documentId, RowMetadata(row).chunkId)
    /\ DocumentResponseValid(row.similarity)

\* for row in rows: a row that raises is printed and skipped.
RECURSIVE ProcessRows(_, _)
ProcessRows(rows, n) ==
    IF rows = <<>> THEN <<>>
    ELSE LET row == Head(rows)
             rest == ProcessRows(Tail(rows), n + 2)
         IN  IF RowParses(row)
             THEN <<DocumentResponse(row.content, RowMetadata(row), n,
                                     row.similarity, "pgvector-1",
                                     "PostgreSQL Vector DB", "pgvector")>> \o rest
             ELSE rest

\* No text was handed to cursor.execute.
NoSql == [vector |-> <<>>, where |-> <<>>, limit |-> 0, params |-> <<>>]

\* cursor.execute(sql) raises: the server fails, LIMIT is negative or the
\* text does not parse.
ExecuteRaises(k, collection_ids, tags, sqlFault) ==
    sqlFault = "execute" \/ k < 0 \/ ~SqlSyntaxOk(WhereText(collection_ids, tags))

\* An embedding failure swallowed: the search goes on to report no rows.
_direct_pgvector_search_swallowing(k, collection_ids, tags, tbl, sqlFault, qvec, n) ==
    IF sqlFault = "embed"
    THEN [raised |-> FALSE, results |-> <<>>, opened |-> 0, closed |-> 0, sql |-> NoSql]
    ELSE IF sqlFault = "connect"
    THEN [raised |-> TRUE, results |-> <<>>, opened |-> 0, closed |-> 0, sql |-> NoSql]
    ELSE IF ExecuteRaises(k, collection_ids, tags, sqlFault)
    THEN [raised |-> TRUE, results |-> <<>>, opened |-> 1, closed |-> 0,
          sql |-> SqlText(k, collection_ids, tags, qvec)]
    ELSE [raised |-> FALSE,
          results |-> ProcessRows(SqlQuery(tbl, qvec, k, collection_ids, tags), n),
          opened |-> 1, closed |-> 1,
          sql |-> SqlText(k, collection_ids, tags, qvec)]

\* _direct_pgvector_search(query, k, collection_ids, tags).  sqlFault names the
\* statement that raises, if any: embed_query, _get_db_connection or
\* cursor.execute; cursor.execute also raises on LIMIT k with k < 0 and on a
\* text that does not parse.  The outer except re-raises.  conn is closed only
\* on the path that reaches conn.close().  sql is the text handed to
\* cursor.execute.
_direct_pgvector_search(k, collection_ids, tags, tbl, sqlFault, qvec, n) ==
    IF sqlFault \in {"embed", "connect"}
    THEN [raised |-> TRUE, results |-> <<>>, opened |-> 0, closed |-> 0, sql |-> NoSql]
    ELSE IF ExecuteRaises(k, collection_ids, tags, sqlFault)
    THEN [raised |-> TRUE, results |-> <<>>, opened |-> 1, closed |-> 0,
          sql |-> SqlText(k, collection_ids, tags, qvec)]
    ELSE [raised |-> FALSE,
          results |-> ProcessRows(SqlQuery(tbl, qvec, k, collection_ids, tags), n),
          opened |-> 1, closed |-> 1,
          sql |-> SqlText(k, collection_ids, tags, qvec)]

\* ------------------------------------------------------------- search
\* self.vector_stores[store_id]["info"]
StoreInfo(store_id) ==
    IF store_id = "pgvector-1"
    THEN [name |-> "PostgreSQL Vector DB", type |-> "pgvector"]
    ELSE [name |-> "Pinecone Vector DB", type |-> "pinecone"]

\* _search_store: store.similarity_search(query, k, filter) is the library's;
\* resp is what it does on this call, raise or return docs.  A raise is
\* caught and [] is returned.
_search_store(resp) == IF resp.raises THEN <<>> ELSE resp.docs

\* doc.metadata or {}
DocMetadata(doc) == IF doc.metadata = <<>> THEN EmptyMetadata ELSE doc.metadata[1]

\* metadata.get("similarity", 0.0): <<>> is a metadata without the key.
DocSimilarity(doc) ==
    IF doc.metadata = <<>> \/ doc.metadata[1].similarity = <<>> THEN 0
    ELSE doc.metadata[1].similarity[1]

DocParses(doc) ==
    /\ DocumentMetadataValid(DocMetadata(doc).documentId, DocMetadata(doc).chunkId)
    /\ DocumentResponseValid(DocSimilarity(doc))

\* for doc in docs: ... results.append(doc_response).  A doc that raises ends
\* the store's try block: the docs before it stay appended, those after it
\* are never reached.
RECURSIVE FormatDocs(_, _, _)
FormatDocs(store_id, docs, n) ==
    IF docs = <<>> THEN <<>>
    ELSE IF DocParses(Head(docs))
         THEN <<DocumentResponse(Head(docs).page_content, DocMetadata(Head(docs)), n,
                                 DocSimilarity(Head(docs)), store_id,
                                 StoreInfo(store_id).name,
                                 StoreInfo(store_id).type)>>
              \o FormatDocs(store_id, Tail(docs), n + 2)
         ELSE <<>>

\* filter_dict: {"collection": {"$in": collection_ids}, "tags": {"$in": tags}},
\* a key only for a truthy list; both <<>> is filter_dict = None.
FilterDict(collection_ids, tags) ==
    [collection |-> IF Truthy(collection_ids) THEN Some(collection_ids[1]) ELSE None,
     tags |-> IF Truthy(tags) THEN Some(tags[1]) ELSE None]

\* The loop body for one store: the try block and its except, which prints
\* and goes on to the next store.
SearchOneStore(store_id, resp, n) == FormatDocs(store_id, _search_store(resp), n)

\* for store_id, store_data in stores_to_search.items()
RECURSIVE SearchStores(_, _, _)
SearchStores(stores, responses, n) ==
    IF stores = <<>> THEN <<>>
    ELSE SearchOneStore(Head(stores), responses[Head(stores)], n)
         \o SearchStores(Tail(stores), responses,
                         n + 2 * Len(_search_store(responses[Head(stores)])))

\* A lookup that takes every registered store for a known one, whatever
\* backend_ids names.
KnownStoresWhateverTheIds(ids, vector_stores, seen) == vector_stores

\* A dict keeps its keys in insertion order and a key once.
RECURSIVE KnownStores(_, _, _)
KnownStores(ids, vector_stores, seen) ==
    IF ids = <<>> THEN <<>>
    ELSE IF Head(ids) \in Elems(vector_stores) /\ Head(ids) \notin seen
         THEN <<Head(ids)>> \o KnownStores(Tail(ids), vector_stores, seen \cup {Head(ids)})
         ELSE KnownStores(Tail(ids), vector_stores, seen)

\* A selection that falls back to every store when backend_ids names none
\* of them.
StoresToSearchOrAll(backend_ids, vector_stores) ==
    IF Truthy(backend_ids) /\ KnownStores(backend_ids[1], vector_stores, {}) # <<>>
    THEN KnownStores(backend_ids[1], vector_stores, {})
    ELSE vector_stores

\* stores_to_search
StoresToSearch(backend_ids, vector_stores) ==
    IF Truthy(backend_ids) THEN KnownStores(backend_ids[1], vector_stores, {})
    ELSE vector_stores

\* A fast path taken whatever backend_ids holds.
FastPathWhateverTheIds(enable_pgvector, backend_ids) == enable_pgvector

\* A registry narrowed to the stores searched: stores_to_search filtered in
\* place while it is self.vector_stores.
RegistryNarrowedBySearch(backend_ids, vector_stores) ==
    StoresToSearch(backend_ids, vector_stores)

\* self.vector_stores after search: stores_to_search is a new dict, or
\* self.vector_stores itself when backend_ids is falsy, and is only read.
RegistryAfterSearch(backend_ids, vector_stores) == vector_stores

\* if ENABLE_PGVECTOR and (not backend_ids or "pgvector-1" in backend_ids)
FastPathAttempted(enable_pgvector, backend_ids) ==
    enable_pgvector /\ (~Truthy(backend_ids) \/ "pgvector-1" \in Elems(backend_ids[1]))

\* The first block of search without its try/except: what the direct search
\* raises leaves search.
DirectAttemptUncaught(enable_pgvector, r, tbl, e, n) ==
    IF ~FastPathAttempted(enable_pgvector, r.backend_ids)
    THEN [attempted |-> FALSE, raised |-> FALSE, returned |-> FALSE, escaped |-> FALSE,
          results |-> <<>>, opened |-> 0, closed |-> 0, sql |-> NoSql]
    ELSE LET d == _direct_pgvector_search(r.k, r.collection_ids, r.tags, tbl,
                                          e.sqlFault, e.qvec, n)
         IN  [attempted |-> TRUE, raised |-> d.raised,
              returned |-> ~d.raised /\ d.results # <<>>,
              escaped |-> d.raised,
              results |-> d.results, opened |-> d.opened, closed |-> d.closed,
              sql |-> d.sql]

\* The first block of search: the direct SQL search inside its try/except.
\* returned is TRUE when search returns direct_results from here.
DirectAttempt(enable_pgvector, r, tbl, e, n) ==
    IF ~FastPathAttempted(enable_pgvector, r.backend_ids)
    THEN [attempted |-> FALSE, raised |-> FALSE, returned |-> FALSE, escaped |-> FALSE,
          results |-> <<>>, opened |-> 0, closed |-> 0, sql |-> NoSql]
    ELSE LET d == _direct_pgvector_search(r.k, r.collection_ids, r.tags, tbl,
                                          e.sqlFault, e.qvec, n)
         IN  [attempted |-> TRUE, raised |-> d.raised,
              returned |-> ~d.raised /\ d.results # <<>>,
              escaped |-> FALSE,
              results |-> d.results, opened |-> d.opened, closed |-> d.closed,
              sql |-> d.sql]

\* A loop without the per-store handlers: one store's error ends the loop and
\* nothing is merged.
GenericSearchAbortOnError(r, vector_stores, e, n) ==
    LET stores == StoresToSearch(r.backend_ids, vector_stores)
    IN  IF stores = <<>> \/ \E i \in 1..Len(stores) : e.responses[stores[i]].raises
        THEN <<>>
        ELSE Slice(ListSortReverse(SearchStores(stores, e.responses, n)), r.k)

\* The rest of search: the stores to search, the loop, the sort and the cut.
GenericSearch(r, vector_stores, e, n) ==
    LET stores == StoresToSearch(r.backend_ids, vector_stores)
    IN  IF stores = <<>> THEN <<>>
        ELSE Slice(ListSortReverse(SearchStores(stores, e.responses, n)), r.k)

\* A search that goes on to the other stores after the direct search returned
\* matches, and merges.
searchMerging(enable_pgvector, vector_stores, r, tbl, e, n) ==
    LET direct == DirectAttempt(enable_pgvector, r, tbl, e, n)
    IN  [raised |-> FALSE,
         results |-> Slice(ListSortReverse(
                         direct.results
                         \o SearchStores(StoresToSearch(r.backend_ids, vector_stores),
                                         e.responses, n + 2 * Len(tbl))), r.k),
         path |-> IF direct.returned THEN "fast" ELSE "generic",
         queried |-> StoresToSearch(r.backend_ids, vector_stores),
         direct |-> direct]

\* search(query, k, backend_ids, collection_ids, tags).  raised: an exception
\* leaves search; path and queried record how the list was produced.
search(enable_pgvector, vector_stores, r, tbl, e, n) ==
    LET direct == DirectAttempt(enable_pgvector, r, tbl, e, n)
    IN  IF direct.escaped
        THEN [raised |-> TRUE, results |-> <<>>, path |-> "fast",
              queried |-> <<>>, direct |-> direct]
        ELSE IF direct.returned
        THEN [raised |-> FALSE, results |-> direct.results, path |-> "fast",
              queried |-> <<>>, direct |-> direct]
        ELSE [raised |-> FALSE,
              results |-> GenericSearch(r, vector_stores, e, n),
              path |-> "generic",
              queried |-> StoresToSearch(r.backend_ids, vector_stores),
              direct |-> direct]

\* -------------------------------------------------- check_connections
\* What the database and Pinecone do during one check: dbFault names the
\* statement that raises (the connection, the three queries in turn, or
\* close), tableExists is what the first query finds, pineconeFault whether
\* describe_index_stats raises, vector_count what it reports.
HealthEnvs ==
    [dbFault : {"none", "connect", "exists", "count", "dims", "close"},
     tableExists : BOOLEAN,
     pineconeFault : {"none", "stats"},
     vector_count : {0, 1}]

\* SELECT vector_dims(embedding) ... WHERE embedding IS NOT NULL LIMIT 1
Dimensions(tbl) ==
    IF \E i \in 1..Len(tbl) : tbl[i].embedding # <<>>
    THEN Some(Len(tbl[CHOOSE i \in 1..Len(tbl) : tbl[i].embedding # <<>>].embedding))
    ELSE None

\* pgvector_status: the block under if ENABLE_PGVECTOR, with its except.
PgvectorStatus(tbl, h) ==
    LET start == [name |-> "PostgreSQL Vector DB", status |-> "error", details |-> "",
                  document_count |-> 0, dimensions |-> None]
        failed == [start EXCEPT !.details = "failed to connect"]
        found == IF h.tableExists
                 THEN [start EXCEPT !.status = "ok", !.details = "connected",
                                    !.document_count = Len(tbl),
                                    !.dimensions = Dimensions(tbl)]
                 ELSE [start EXCEPT !.status = "warning", !.details = "no table"]
    IN  IF h.dbFault \in {"connect", "exists"} THEN failed
        ELSE IF h.tableExists /\ h.dbFault \in {"count", "dims"} THEN failed
        ELSE IF h.dbFault = "close" THEN [found EXCEPT !.details = "failed to connect"]
        ELSE found

\* The connection of the pgvector block: conn.close() is its last statement
\* inside the try, after cursor.close(), and the except does not close.
PgvectorConnection(enable_pgvector, h) ==
    IF ~enable_pgvector \/ h.dbFault = "connect" THEN [opened |-> 0, closed |-> 0]
    ELSE IF h.dbFault \in {"exists", "close"}
            \/ (h.tableExists /\ h.dbFault \in {"count", "dims"})
    THEN [opened |-> 1, closed |-> 0]
    ELSE [opened |-> 1, closed |-> 1]

\* pinecone_status: the block under if ENABLE_PINECONE and PINECONE_API_KEY.
PineconeStatus(vector_stores, h) ==
    LET start == [name |-> "Pinecone Vector DB", status |-> "error", details |-> "",
                  document_count |-> 0, dimensions |-> None]
    IN  IF "pinecone-1" \notin Elems(vector_stores)
        THEN [start EXCEPT !.details = "not initialized"]
        ELSE IF h.pineconeFault = "stats"
        THEN [start EXCEPT !.details = "failed to connect"]
        ELSE [start EXCEPT !.status = "ok", !.details = "connected",
                           !.document_count = h.vector_count]

\* A check that lets a failure of the database or of Pinecone leave it.
check_connectionsFailFast(enable_pgvector, enable_pinecone, api_key, vector_stores, tbl, h) ==
    LET pg == IF enable_pgvector THEN Some(PgvectorStatus(tbl, h)) ELSE None
        pc1 == IF enable_pinecone /\ api_key # ""
               THEN Some(PineconeStatus(vector_stores, h)) ELSE None
        failure == \/ pg # None /\ pg[1].details = "failed to connect"
                   \/ pc1 # None /\ pc1[1].details = "failed to connect"
    IN  IF failure
        THEN [raised |-> TRUE, status |-> "error", pgvector |-> None, pinecone |-> None]
        ELSE [raised |-> FALSE,
              status |-> IF \E e \in Elems(pg \o pc1) : e.status = "error"
                         THEN "error" ELSE "ok",
              pgvector |-> pg, pinecone |-> pc1]

\* check_connections: results["vector_stores"] has the key "pgvector" when
\* ENABLE_PGVECTOR, "pinecone" when ENABLE_PINECONE and PINECONE_API_KEY;
\* results["status"] is "error" when an entry is.
check_connections(enable_pgvector, enable_pinecone, api_key, vector_stores, tbl, h) ==
    LET pg == IF enable_pgvector THEN Some(PgvectorStatus(tbl, h)) ELSE None
        pc1 == IF enable_pinecone /\ api_key # ""
               THEN Some(PineconeStatus(vector_stores, h)) ELSE None
    IN  [raised |-> FALSE,
         status |-> IF \E e \in Elems(pg \o pc1) : e.status = "error"
                    THEN "error" ELSE "ok",
         pgvector |-> pg, pinecone |-> pc1]

\* ---------------------------------------------------- get_collections
\* The tags column, as the driver hands it over: a decoded list, a str that
\* holds the JSON text of a list, a str json.loads rejects, or a decoded
\* object (a dict).
TagsList(l) == [form |-> "list", value |-> l]
TagsJson(l) == [form |-> "json", value |-> l]
TagsGarbled == [form |-> "garbled", value |-> <<>>]
TagsObject == [form |-> "object", value |-> <<>>]

\* A parse without its own try/except: what json.loads raises reaches
\* the handler around the whole read.
ParseTagsUnguarded(tags_json) ==
    IF tags_json.form = "json" THEN TagsList(tags_json.value) ELSE tags_json

\* isinstance(tags_json, str) -> json.loads(tags_json), else tags_json;
\* except Exception: tags = []
ParseTags(tags_json) ==
    IF tags_json.form = "garbled" THEN TagsList(<<>>)
    ELSE IF tags_json.form = "json" THEN TagsList(tags_json.value)
    ELSE tags_json

\* Collection(id=..., name=..., description=..., tags=tags) validates: tags
\* is a List[str].
CollectionValid(tags) == tags.form = "list"

\* schema.Collection
Collection(id, name, description, tags) ==
    [id |-> id, name |-> name, description |-> description, tags |-> tags.value]

\* for row in rows: ... collections.append(collection).  A row whose
\* Collection(...) raises ends the loop: the rows before it stay appended.
RECURSIVE CollectRows(_)
CollectRows(rows) ==
    IF rows = <<>> THEN <<>>
    ELSE IF CollectionValid(ParseTags(Head(rows).tags))
         THEN <<Collection(Head(rows).id, Head(rows).name, Head(rows).description,
                           ParseTags(Head(rows).tags))>>
              \o CollectRows(Tail(rows))
         ELSE <<>>

\* The statement of get_collections that raises, if any.
CollectionFaults == {"none", "connect", "exists", "select", "close"}

\* get_collections.  table is the collections table (None: it does not
\* exist), dbFault the statement that raises.  The outer except returns the
\* list built so far; conn.close() is reached only after the last row.
get_collections(enable_pgvector, table, dbFault) ==
    IF ~enable_pgvector \/ dbFault = "connect"
    THEN [raised |-> FALSE, collections |-> <<>>, opened |-> 0, closed |-> 0]
    ELSE IF dbFault = "exists" \/ table = None \/ dbFault = "select"
    THEN [raised |-> FALSE, collections |-> <<>>, opened |-> 1, closed |-> 0]
    ELSE [raised |-> FALSE, collections |-> CollectRows(table[1]),
          opened |-> 1,
          closed |-> IF Len(CollectRows(table[1])) = Len(table[1]) /\ dbFault # "close"
                     THEN 1 ELSE 0]

\* list_collections: return vector_store_service.get_collections()
list_collections(enable_pgvector, table, dbFault) ==
    get_collections(enable_pgvector, table, dbFault)

\* ---------------------------------------------- GET /search (the route)
\* A route that hands the matches on as they are.
CleanSimilarityForgotten(m) == m

\* result.similarity is None or math.isnan(result.similarity) -> 0.0
CleanSimilarity(m) ==
    IF m.similarity = NoneVal \/ m.similarity = NaN
    THEN [m EXCEPT !.similarity = 0] ELSE m

\* A route that leaves the NaN matches out.
search_documentsDroppingNaN(ret) ==
    [raised |-> ret.raised,
     results |-> SelectSeq(ret.results, LAMBDA m : m.similarity \notin {NaN, NoneVal})]

\* search_documents: await search(...), clean NaN, return results.
search_documents(ret) ==
    [raised |-> ret.raised,
     results |-> [i \in 1..Len(ret.results) |-> CleanSimilarity(ret.results[i])]]

\* ------------------------------------------------------ inputs of a run
Ks == (0 - MaxNegK)..MaxK

BackendIdChoices ==
    {None, Some(<<"pgvector-1">>), Some(<<"pinecone-1">>), Some(<<"nonexistent">>),
     Some(<<"pinecone-1", "pgvector-1">>)}

FilterChoices ==
    {[collection_ids |-> None, tags |-> None],
     [collection_ids |-> Some(<<"apollo-11">>), tags |-> Some(<<"nasa">>)]}

Meta(documentId, chunkId, collection, tags) ==
    [form |-> "dict", documentId |-> documentId, documentName |-> "mission.pdf",
     chunkId |-> chunkId, collection |-> collection, tags |-> tags]

\* Rows of the documents table.  The ingestion script stores a zero vector for
\* a chunk whose embedding batch failed (pdf_to_pgvector.py, create_embeddings).
RowUniverse ==
    << [content |-> "A", metadata |-> Meta("doc-A", "chunk-A", "apollo-11", <<"nasa">>),
        embedding |-> <<3, 4>>],
       [content |-> "B", metadata |-> Meta(ABSENT, ABSENT, "apollo-11", <<"nasa">>),
        embedding |-> <<0, 0>>],
       [content |-> "C", metadata |-> Meta("doc-C", "chunk-C", "apollo-13", <<>>),
        embedding |-> <<0 - 1, 0>>],
       [content |-> "D", metadata |-> Meta("doc-D", "chunk-D", "apollo-13", <<"nasa">>),
        embedding |-> <<1, 0>>] >>

\* Documents a library store may hand back.
DocUniverse ==
    << [page_content |-> "G",
        metadata |-> Some(Meta("doc-G", "chunk-G", "apollo-11", <<"nasa">>)
                          @@ [similarity |-> <<>>])],
       [page_content |-> "H",
        metadata |-> Some(Meta(ABSENT, ABSENT, "apollo-11", <<>>)
                          @@ [similarity |-> <<150>>])],
       [page_content |-> "N",
        metadata |-> Some(Meta("doc-N", "chunk-N", "apollo-13", <<"nasa">>)
                          @@ [similarity |-> <<NaN>>])] >>

\* The sequences that pick at most max items of a universe, in its order.
Picks(universe, max) ==
    {[i \in 1..Cardinality(S) |->
        universe[CHOOSE x \in S : Cardinality({y \in S : y < x}) = i - 1]] :
     S \in {T \in SUBSET (1..Len(universe)) : Cardinality(T) <= max}}

Tables == Picks(RowUniverse, MaxRows)

NotQueried == [raises |-> FALSE, docs |-> <<>>]
Responses ==
    {[raises |-> TRUE, docs |-> <<>>]}
    \cup {[raises |-> FALSE, docs |-> d] : d \in Picks(DocUniverse, MaxDocs)}

SqlFaults == {"none", "embed", "connect", "execute"}
QueryVectors == {<<1, 0>>, <<3, 4>>}

StoreIds == {"pgvector-1", "pinecone-1"}

\* --------------------------------------------------- pdf_to_pgvector.py
\* The chunk texts of the PDFs, one chunk a PDF, named after its URL.
ChunkTexts == <<"a11-plan", "a11-log", "a13-log", "a13-plan", "a17-log">>

\* The embedding the endpoint produces for a text.
Embedding(text) == <<CHOOSE i \in 1..Len(ChunkTexts) : ChunkTexts[i] = text, 1>>

\* [0.0] * DEFAULT_EMBEDDINGS_DIMENSIONS
ZeroVector == <<0, 0>>

\* What the endpoint does with one batch: one item for every input ("ok"),
\* the item of the last input missing ("short"), or a status other than 200
\* or an exception ("fail").
BatchAnswers == {"ok", "short", "fail"}

\* range(0, len(texts), batch_size)
BatchCount(n) == (n + DEFAULT_BATCH_SIZE - 1) \div DEFAULT_BATCH_SIZE

\* The try block for one batch: batch_embeddings, or in the except one zero
\* vector for every text of the batch.
BatchEmbeddings(batch, answer) ==
    IF answer = "fail" THEN [i \in 1..Len(batch) |-> ZeroVector]
    ELSE [i \in 1..(IF answer = "short" THEN Len(batch) - 1 ELSE Len(batch)) |->
            Embedding(batch[i])]

\* for i in range(0, len(texts), batch_size): ... embeddings.extend(...)
RECURSIVE EmbedBatches(_, _)
EmbedBatches(texts, answers) ==
    IF texts = <<>> THEN <<>>
    ELSE IF Len(texts) <= DEFAULT_BATCH_SIZE
    THEN BatchEmbeddings(texts, Head(answers))
    ELSE BatchEmbeddings(SubSeq(texts, 1, DEFAULT_BATCH_SIZE), Head(answers))
         \o EmbedBatches(SubSeq(texts, DEFAULT_BATCH_SIZE + 1, Len(texts)),
                         Tail(answers))

\* while len(embeddings) < len(texts): append a zero vector;
\* embeddings[:len(texts)]
PadOrCut(embeddings, n) ==
    [i \in 1..n |-> IF i <= Len(embeddings) THEN embeddings[i] ELSE ZeroVector]

\* EmbeddingsService.create_embeddings(texts); answers[b] is what the
\* endpoint does with batch b.
create_embeddings(texts, answers) ==
    IF texts = <<>> THEN <<>>
    ELSE PadOrCut(EmbedBatches(texts, answers), Len(texts))

\* The database: the rows of the documents table and the collections table.
\* create_tables: DROP TABLE IF EXISTS on both when drop_tables, then CREATE
\* TABLE IF NOT EXISTS documents.
create_tables(db, drop_tables) ==
    IF drop_tables THEN [documents |-> <<>>, collections |-> None] ELSE db

\* The chunks of one collection's PDFs, with the tags and the collection id
\* process_pdfs writes into their metadata.
Chunks(collection) ==
    [i \in 1..Len(collection.urls) |->
        [text |-> collection.urls[i],
         metadata |-> Meta(collection.urls[i], collection.urls[i],
                           collection.id, collection.tags)]]

\* insert_documents: the shorter of the two lists decides; the rows are
\* appended.
insert_documents(db, docs, embeddings) ==
    LET doc_count == IF Len(docs) <= Len(embeddings) THEN Len(docs) ELSE Len(embeddings)
    IN  [db EXCEPT !.documents =
            @ \o [i \in 1..doc_count |->
                    [content |-> docs[i].text, metadata |-> docs[i].metadata,
                     embedding |-> embeddings[i]]]]

\* insert_collection: CREATE TABLE collections when it is missing, then
\* INSERT ... ON CONFLICT (id) DO UPDATE.
insert_collection(db, collection) ==
    LET row == [id |-> collection.id, name |-> collection.name,
                description |-> "transcripts", tags |-> TagsList(collection.tags)]
        rows == IF db.collections = None THEN <<>> ELSE db.collections[1]
    IN  [db EXCEPT !.collections =
            IF \E i \in 1..Len(rows) : rows[i].id = collection.id
            THEN Some([i \in 1..Len(rows) |->
                          IF rows[i].id = collection.id THEN row ELSE rows[i]])
            ELSE Some(Append(rows, row))]

\* How one run of pdf_to_pgvector.py goes: "ok", the database refusing the
\* connection ("connect": the run ends with an error before anything is
\* written), or the embeddings endpoint failing every batch ("embed").
IngestOutcomes == {"ok", "connect", "embed"}

\* process_pdfs for one collection.
process_pdfs(db, collection, drop_tables, outcome) ==
    IF outcome = "connect" THEN db
    ELSE LET docs == Chunks(collection)
             texts == [i \in 1..Len(docs) |-> docs[i].text]
             answers == [b \in 1..BatchCount(Len(texts)) |->
                            IF outcome = "embed" THEN "fail" ELSE "ok"]
         IN  insert_collection(
                 insert_documents(create_tables(db, drop_tables), docs,
                                  create_embeddings(texts, answers)),
                 collection)

\* ------------------------------------------- load_mission_collections.py
\* if not collection_id or not collection_name or not pdf_urls
Incomplete(collection) ==
    collection.id = "" \/ collection.name = "" \/ collection.urls = <<>>

\* if drop_tables: command.append("--drop-tables"), for the command of every
\* collection; drops counts the runs that dropped the tables so far.
DropForEntry(drop_tables, drops) == drop_tables

\* ---------------------------------------------------------------- state
VARIABLES
    ENABLE_PGVECTOR,  \* app.config.ENABLE_PGVECTOR
    vector_stores,    \* VectorStoreService.vector_stores: the ids, in insertion order
    documents,        \* the rows of the documents table (PGVECTOR_TABLE_NAME)
    pc,               \* "idle" or "responded": where the request handler is
    req,              \* the request being served
    env,              \* what the collaborators do during this request
    ret,              \* what search returned to the route
    response,         \* what the route returned
    prev,             \* ret and response of the same request served just before
    uuidCount,        \* identifiers drawn so far
    ENABLE_PINECONE,  \* app.config.ENABLE_PINECONE
    PINECONE_API_KEY, \* app.config.PINECONE_API_KEY
    status,           \* what GET /vector-stores/status returned last, and under
                      \* which behaviour of the database and Pinecone
    collections_table, \* the collections table: None while it does not exist
    collections,      \* what GET /collections returned last, and under which
                      \* behaviour of the database
    loaded,           \* the last run of load_mission_collections.py
    embedded          \* the last call of EmbeddingsService.create_embeddings

vars == <<ENABLE_PGVECTOR, vector_stores, documents, pc, req, env, ret, response,
          prev, uuidCount, ENABLE_PINECONE, PINECONE_API_KEY, status,
          collections_table, collections, loaded, embedded>>

\* What the search and status routes leave alone: the collections table and
\* the records of the other operations.
elsewhere == <<collections_table, collections, loaded, embedded>>

NoRequest == [k |-> 0, backend_ids |-> None, collection_ids |-> None, tags |-> None]
NoEnv ==
    [sqlFault |-> "none", qvec |-> <<1, 0>>, responses |-> [s \in StoreIds |-> NotQueried]]
NoAttempt ==
    [attempted |-> FALSE, raised |-> FALSE, returned |-> FALSE, escaped |-> FALSE,
     results |-> <<>>, opened |-> 0, closed |-> 0, sql |-> NoSql]
NoReturn ==
    [raised |-> FALSE, results |-> <<>>, path |-> "none", queried |-> <<>>,
     direct |-> NoAttempt]
NoResponse == [raised |-> FALSE, results |-> <<>>]
NoStatus == <<>>
NoCollections == <<>>
NotLoaded == <<>>
NotEmbedded == <<>>

\* __init__ / initialize_vector_stores: a store whose flag is set is registered
\* unless its _init_* raised; pgvector-1 is registered first.  The table is
\* read only when ENABLE_PGVECTOR is set.  search reads neither of the
\* Pinecone settings: here they are set exactly when pinecone-1 is registered.
InitFrom(tables) ==
    /\ ENABLE_PGVECTOR \in BOOLEAN
    /\ vector_stores \in {<<>>, <<"pgvector-1">>, <<"pinecone-1">>,
                          <<"pgvector-1", "pinecone-1">>}
    /\ "pgvector-1" \in Elems(vector_stores) => ENABLE_PGVECTOR
    /\ documents \in tables
    /\ ~ENABLE_PGVECTOR => documents = <<>>
    /\ pc = "idle"
    /\ req = NoRequest
    /\ env = NoEnv
    /\ ret = NoReturn
    /\ response = NoResponse
    /\ prev = <<>>
    /\ uuidCount = 0
    /\ ENABLE_PINECONE = ("pinecone-1" \in Elems(vector_stores))
    /\ PINECONE_API_KEY = (IF ENABLE_PINECONE THEN "key" ELSE "")
    /\ status = NoStatus
    /\ collections_table = None
    /\ collections = NoCollections
    /\ loaded = NotLoaded
    /\ embedded = NotEmbedded

Init == InitFrom(Tables)

\* The collaborators' behaviour during one request, drawn from the given
\* faults, query embeddings and store answers: which statement of the direct
\* search raises, the embedding of the query, and what each store answers
\* when asked.  A store backend_ids does not select is never asked; when the
\* direct search returns matches the selected stores' answers are drawn from
\* the short ones.
Envs(r, faults, qvecs, responses) ==
    LET fast == FastPathAttempted(ENABLE_PGVECTOR, r.backend_ids)
        selected == Elems(StoresToSearch(r.backend_ids, vector_stores))
        short == {x \in responses : Len(x.docs) <= 1}
        Returned(e) == DirectAttempt(ENABLE_PGVECTOR, r, documents, e, 0).returned
    IN  {e \in [sqlFault : faults \cup {"none"}, qvec : qvecs \cup {NoEnv.qvec},
                responses : [StoreIds -> responses \cup {NotQueried}]] :
           /\ ~fast => e.sqlFault = "none"
           /\ IF fast /\ e.sqlFault = "none" /\ r.k >= 0
              THEN e.qvec \in qvecs ELSE e.qvec = NoEnv.qvec
           /\ \A s \in StoreIds :
                IF s \in selected
                THEN e.responses[s] \in (IF Returned(e) THEN short ELSE responses)
                ELSE e.responses[s] = NotQueried}

Serve(r, e) ==
    /\ req' = r
    /\ env' = e
    /\ ret' = search(ENABLE_PGVECTOR, vector_stores, r, documents, e, uuidCount)
    /\ response' = search_documents(ret')
    /\ uuidCount' = uuidCount + 2 * (Len(documents)
                                     + Len(_search_store(e.responses["pgvector-1"]))
                                     + Len(_search_store(e.responses["pinecone-1"])))
    /\ pc' = "responded"
    /\ vector_stores' = RegistryAfterSearch(r.backend_ids, vector_stores)
    /\ UNCHANGED <<ENABLE_PGVECTOR, documents, ENABLE_PINECONE, PINECONE_API_KEY, status,
                   elsewhere>>

\* GET /search: search_documents, with the call of search it makes, for a
\* request and collaborators drawn from the given sets.
SearchFrom(ks, backends, filters, faults, qvecs, responses) ==
    /\ pc = "idle"
    /\ \E k \in ks, b \in backends, f \in filters :
         LET r == [k |-> k, backend_ids |-> b,
                   collection_ids |-> f.collection_ids, tags |-> f.tags]
         IN  \E e \in Envs(r, faults, qvecs, responses) : Serve(r, e)
    /\ prev' = <<>>

SearchDocuments ==
    SearchFrom(Ks, BackendIdChoices, FilterChoices, SqlFaults, QueryVectors, Responses)

\* The same request once more, storage and collaborators unchanged.
RepeatSearch ==
    /\ pc = "responded"
    /\ prev = <<>>
    /\ prev' = <<[ret |-> ret, response |-> response]>>
    /\ Serve(req, env)

\* The response is delivered and its lists are dropped.  Identifiers are
\* only ever compared within the lists held here, so the count restarts.
Complete ==
    /\ pc = "responded"
    /\ pc' = "idle"
    /\ req' = NoRequest
    /\ env' = NoEnv
    /\ ret' = NoReturn
    /\ response' = NoResponse
    /\ prev' = <<>>
    /\ uuidCount' = 0
    /\ UNCHANGED <<ENABLE_PGVECTOR, vector_stores, documents, ENABLE_PINECONE,
                   PINECONE_API_KEY, status, elsewhere>>

Next == SearchDocuments \/ RepeatSearch \/ Complete

Spec == Init /\ [][Next]_vars

\* ------------------------------------- searches over malformed records
\* Rows whose metadata or embedding makes the per-row block raise, between
\* rows that parse: a null documentId (DocumentMetadata rejects None), a
\* metadata that is a JSON array (metadata["similarity"] = ... raises), a NULL
\* embedding (similarity is None) and a row whose identifiers are "".
RecordRows ==
    << [content |-> "A", metadata |-> Meta("doc-A", "chunk-A", "apollo-11", <<"nasa">>),
        embedding |-> <<3, 4>>],
       [content |-> "Q", metadata |-> Meta(NULL, "chunk-Q", "apollo-11", <<"nasa">>),
        embedding |-> <<1, 0>>],
       [content |-> "L", metadata |-> [Meta("doc-L", "chunk-L", "apollo-11", <<>>)
                                        EXCEPT !.form = "other"],
        embedding |-> <<1, 0>>],
       [content |-> "U", metadata |-> Meta("doc-U", "chunk-U", "apollo-11", <<>>),
        embedding |-> <<>>],
       [content |-> "E", metadata |-> Meta("", "", "apollo-13", <<"nasa">>),
        embedding |-> <<4, 3>>],
       [content |-> "D", metadata |-> Meta("doc-D", "chunk-D", "apollo-13", <<"nasa">>),
        embedding |-> <<0 - 1, 0>>] >>

\* Documents of a library store: a null chunkId and a similarity of None
\* make DocumentMetadata / DocumentResponse raise.
RecordDocs ==
    << [page_content |-> "G",
        metadata |-> Some(Meta("doc-G", "chunk-G", "apollo-11", <<"nasa">>)
                          @@ [similarity |-> <<80>>])],
       [page_content |-> "X",
        metadata |-> Some(Meta("doc-X", NULL, "apollo-11", <<"nasa">>)
                          @@ [similarity |-> <<70>>])],
       [page_content |-> "Y",
        metadata |-> Some(Meta("doc-Y", "chunk-Y", "apollo-11", <<>>)
                          @@ [similarity |-> <<NoneVal>>])],
       [page_content |-> "Z",
        metadata |-> Some(Meta("", "", "apollo-11", <<>>)
                          @@ [similarity |-> <<60>>])],
       [page_content |-> "M", metadata |-> None],
       [page_content |-> "W",
        metadata |-> Some(Meta("doc-W", "chunk-W", "apollo-13", <<"nasa">>)
                          @@ [similarity |-> <<50>>])] >>

RecordResponses ==
    {[raises |-> TRUE, docs |-> <<>>]}
    \cup {[raises |-> FALSE, docs |-> d] : d \in Picks(RecordDocs, MaxDocs)}

InitRecords == InitFrom(Picks(RecordRows, MaxRows))

\* GET /search with room for every record (k = MaxK), no filters.
SearchRecords ==
    SearchFrom({MaxK}, {None, Some(<<"pinecone-1">>)},
               {[collection_ids |-> None, tags |-> None]},
               {"none"}, {<<1, 0>>}, RecordResponses)

NextRecords == SearchRecords \/ RepeatSearch \/ Complete

SpecRecords == InitRecords /\ [][NextRecords]_vars

\* ------------------------------------------- searches with filter values
\* Rows in two collections and in none, with two tags, one tag and no tag.
FilterRows ==
    << [content |-> "A", metadata |-> Meta("doc-A", "chunk-A", "apollo-11", <<"nasa", "moon">>),
        embedding |-> <<3, 4>>],
       [content |-> "C", metadata |-> Meta("doc-C", "chunk-C", "apollo-13", <<>>),
        embedding |-> <<4, 3>>],
       [content |-> "P", metadata |-> Meta("doc-P", "chunk-P", ABSENT, <<"moon">>),
        embedding |-> <<1, 0>>] >>

\* collection_id and tag of the query string: absent, lists of one and two
\* values, and values holding a quote.  [] is what a caller of search may
\* pass.
CollectionIdChoices ==
    {None, Some(<<>>), Some(<<"apollo-11">>), Some(<<"apollo-13">>),
     Some(<<"apollo-11", "apollo-13">>), Some(<<HostileCollection>>)}

TagChoices ==
    {None, Some(<<>>), Some(<<"nasa">>), Some(<<"moon">>), Some(<<"nasa", "moon">>),
     Some(<<HostileTag>>), Some(<<QuotedName>>)}

FilterValueChoices == [collection_ids : CollectionIdChoices, tags : TagChoices]

\* The stores find nothing under these filters, or raise.
FilterResponses ==
    {[raises |-> TRUE, docs |-> <<>>], [raises |-> FALSE, docs |-> <<>>]}

InitFilters == InitFrom(Picks(FilterRows, MaxRows))

SearchFilters ==
    SearchFrom({MaxK}, {None, Some(<<"pgvector-1">>)}, FilterValueChoices,
               {"none"}, {<<1, 0>>}, FilterResponses)

NextFilters == SearchFilters \/ RepeatSearch \/ Complete

SpecFilters == InitFilters /\ [][NextFilters]_vars

\* ------------------------------------------- GET /vector-stores/status
\* Every configuration: a flag may be set while the store is not registered
\* (its _init_* raised), and ENABLE_PINECONE may be set without an API key.
InitStatus ==
    /\ ENABLE_PGVECTOR \in BOOLEAN
    /\ ENABLE_PINECONE \in BOOLEAN
    /\ PINECONE_API_KEY \in {"", "key"}
    /\ vector_stores \in {<<>>, <<"pgvector-1">>, <<"pinecone-1">>,
                          <<"pgvector-1", "pinecone-1">>}
    /\ "pgvector-1" \in Elems(vector_stores) => ENABLE_PGVECTOR
    /\ "pinecone-1" \in Elems(vector_stores) => (ENABLE_PINECONE /\ PINECONE_API_KEY # "")
    /\ documents \in Tables
    /\ ~ENABLE_PGVECTOR => documents = <<>>
    /\ pc = "idle"
    /\ req = NoRequest
    /\ env = NoEnv
    /\ ret = NoReturn
    /\ response = NoResponse
    /\ prev = <<>>
    /\ uuidCount = 0
    /\ status = NoStatus
    /\ collections_table = None
    /\ collections = NoCollections
    /\ loaded = NotLoaded
    /\ embedded = NotEmbedded

\* vector_stores_status: return check_connections().  A table that does not
\* exist holds no rows; a collaborator that is not reached does nothing.
VectorStoresStatus ==
    /\ pc = "idle"
    /\ \E h \in HealthEnvs :
         /\ ~h.tableExists => documents = <<>>
         /\ ~ENABLE_PGVECTOR => (h.dbFault = "none" /\ h.tableExists)
         /\ h.dbFault \in {"connect", "exists"} => h.tableExists
         /\ ~h.tableExists => h.dbFault \notin {"count", "dims"}
         /\ ~(ENABLE_PINECONE /\ PINECONE_API_KEY # ""
              /\ "pinecone-1" \in Elems(vector_stores))
            => (h.pineconeFault = "none" /\ h.vector_count = 0)
         /\ h.pineconeFault = "stats" => h.vector_count = 0
         /\ status' = <<[env |-> h,
                         out |-> check_connections(ENABLE_PGVECTOR, ENABLE_PINECONE,
                                                   PINECONE_API_KEY, vector_stores,
                                                   documents, h)]>>
    /\ UNCHANGED <<ENABLE_PGVECTOR, vector_stores, documents, pc, req, env, ret,
                   response, prev, uuidCount, ENABLE_PINECONE, PINECONE_API_KEY,
                   elsewhere>>

NextStatus == VectorStoresStatus

SpecStatus == InitStatus /\ [][NextStatus]_vars

\* ------------------------------------- searches with empty filter lists
\* backend_ids, collection_ids and tags each absent, [] or one value.
MaybeEmpty(value) == {None, Some(<<>>), Some(<<value>>)}

SearchEmptyLists ==
    SearchFrom({MaxK}, MaybeEmpty("pinecone-1"),
               [collection_ids : MaybeEmpty("apollo-11"), tags : MaybeEmpty("nasa")],
               {"none", "connect"}, {<<1, 0>>}, Responses)

NextEmptyLists == SearchEmptyLists \/ Complete

SpecEmptyLists == Init /\ [][NextEmptyLists]_vars

\* ----------------------------------- searches naming the stores in turn
\* GET /search?backend_id=pgvector-1&backend_id=pinecone-1, the direct search
\* finding the database down or the table empty.
SearchBothStores ==
    SearchFrom(1..MaxK, {Some(<<"pgvector-1", "pinecone-1">>)},
               {[collection_ids |-> None, tags |-> None]},
               {"connect"}, {<<1, 0>>}, Responses)

Reversed(l) == [i \in 1..Len(l) |-> l[Len(l) + 1 - i]]

\* The same request with the ids of backend_id in the other order, storage
\* and collaborators unchanged.
SearchReordered ==
    /\ pc = "responded"
    /\ prev = <<>>
    /\ prev' = <<[ret |-> ret, response |-> response]>>
    /\ Serve([req EXCEPT !.backend_ids = Some(Reversed(req.backend_ids[1]))], env)

NextOrder == SearchBothStores \/ SearchReordered \/ Complete

SpecOrder == Init /\ [][NextOrder]_vars

\* ------------------------------------------ search, one await at a time
\* A store whose similarity_search never returns: _search_store calls it
\* without a timeout.
Never == [raises |-> FALSE, docs |-> <<>>, never |-> TRUE]

\* search up to its first await of _search_store: the direct search, the
\* early returns and stores_to_search.  pc is "searching" while the loop
\* over the stores runs; ret.queried holds the stores that have answered.
BeginSearch ==
    /\ pc = "idle"
    /\ \E b \in {None, Some(<<"pinecone-1">>), Some(<<"pinecone-1", "pgvector-1">>)} :
         LET r == [k |-> MaxK, backend_ids |-> b, collection_ids |-> None, tags |-> None]
         IN  \E e \in Envs(r, {"connect"}, {<<1, 0>>}, Responses \cup {Never}) :
                LET direct == DirectAttempt(ENABLE_PGVECTOR, r, documents, e, uuidCount)
                IN  /\ req' = r
                    /\ env' = e
                    /\ IF direct.returned
                          \/ StoresToSearch(r.backend_ids, vector_stores) = <<>>
                       THEN /\ ret' = search(ENABLE_PGVECTOR, vector_stores, r,
                                             documents, e, uuidCount)
                            /\ response' = search_documents(ret')
                            /\ uuidCount' = uuidCount + 2 * Len(documents)
                            /\ pc' = "responded"
                       ELSE /\ ret' = [raised |-> FALSE, results |-> <<>>,
                                       path |-> "generic", queried |-> <<>>,
                                       direct |-> direct]
                            /\ pc' = "searching"
                            /\ UNCHANGED <<response, uuidCount>>
    /\ prev' = <<>>
    /\ UNCHANGED <<ENABLE_PGVECTOR, vector_stores, documents, ENABLE_PINECONE,
                   PINECONE_API_KEY, status, elsewhere>>

\* The store the loop is waiting for.
Awaited == StoresToSearch(req.backend_ids, vector_stores)[Len(ret.queried) + 1]

\* One turn of the loop: the awaited store answers (or raises) and its
\* documents are formatted and appended.  A call that never returns never
\* lets the loop go on.
StoreAnswers ==
    /\ pc = "searching"
    /\ Len(ret.queried) < Len(StoresToSearch(req.backend_ids, vector_stores))
    /\ env.responses[Awaited] # Never
    /\ ret' = [ret EXCEPT !.queried = Append(@, Awaited),
                          !.results = @ \o SearchOneStore(Awaited, env.responses[Awaited],
                                                          uuidCount)]
    /\ uuidCount' = uuidCount + 2 * Len(_search_store(env.responses[Awaited]))
    /\ UNCHANGED <<ENABLE_PGVECTOR, vector_stores, documents, pc, req, env, response,
                   prev, ENABLE_PINECONE, PINECONE_API_KEY, status, elsewhere>>

\* After the last store: results.sort, results[:k], and the route's cleaning.
FinishSearch ==
    /\ pc = "searching"
    /\ Len(ret.queried) = Len(StoresToSearch(req.backend_ids, vector_stores))
    /\ ret' = [ret EXCEPT !.results = Slice(ListSortReverse(@), req.k)]
    /\ response' = search_documents(ret')
    /\ pc' = "responded"
    /\ UNCHANGED <<ENABLE_PGVECTOR, vector_stores, documents, req, env, prev, uuidCount,
                   ENABLE_PINECONE, PINECONE_API_KEY, status, elsewhere>>

NextSteps == BeginSearch \/ StoreAnswers \/ FinishSearch \/ Complete

\* The event loop resumes a coroutine whose awaited call has returned.
SpecSteps ==
    /\ Init
    /\ [][NextSteps]_vars
    /\ WF_vars(StoreAnswers)
    /\ WF_vars(FinishSearch)

\* ---------------------------------------------------- GET /collections
\* Rows of the collections table.  The ingestion script writes tags with
\* json.dumps (pdf_to_pgvector.py, insert_collection); the other forms are
\* what a JSONB column may hold besides.
CollectionRows ==
    << [id |-> "apollo-11", name |-> "Apollo 11", description |-> "transcripts",
        tags |-> TagsList(<<"nasa">>)],
       [id |-> "mercury", name |-> "Mercury", description |-> "transcripts",
        tags |-> TagsObject],
       [id |-> "gemini", name |-> "Gemini", description |-> "transcripts",
        tags |-> TagsGarbled],
       [id |-> "apollo-13", name |-> "Apollo 13", description |-> "transcripts",
        tags |-> TagsJson(<<"nasa", "moon">>)] >>

CollectionTables == {None} \cup {Some(t) : t \in Picks(CollectionRows, MaxRows)}

InitCollections ==
    /\ ENABLE_PGVECTOR \in BOOLEAN
    /\ vector_stores \in {<<>>, <<"pgvector-1">>, <<"pinecone-1">>,
                          <<"pgvector-1", "pinecone-1">>}
    /\ "pgvector-1" \in Elems(vector_stores) => ENABLE_PGVECTOR
    /\ documents = <<>>
    /\ pc = "idle"
    /\ req = NoRequest
    /\ env = NoEnv
    /\ ret = NoReturn
    /\ response = NoResponse
    /\ prev = <<>>
    /\ uuidCount = 0
    /\ ENABLE_PINECONE = ("pinecone-1" \in Elems(vector_stores))
    /\ PINECONE_API_KEY = (IF ENABLE_PINECONE THEN "key" ELSE "")
    /\ status = NoStatus
    /\ collections_table \in CollectionTables
    /\ collections = NoCollections
    /\ loaded = NotLoaded
    /\ embedded = NotEmbedded

\* GET /collections.  A statement that is not reached does not raise.
ListCollections ==
    /\ pc = "idle"
    /\ \E f \in CollectionFaults :
         /\ ~ENABLE_PGVECTOR => f = "none"
         /\ collections_table = None => f \in {"none", "connect", "exists"}
         /\ f = "close" => Len(CollectRows(collections_table[1]))
                           = Len(collections_table[1])
         /\ collections' = <<[dbFault |-> f,
                              out |-> list_collections(ENABLE_PGVECTOR,
                                                       collections_table, f)]>>
    /\ UNCHANGED <<ENABLE_PGVECTOR, vector_stores, documents, pc, req, env, ret,
                   response, prev, uuidCount, ENABLE_PINECONE, PINECONE_API_KEY,
                   status, collections_table, loaded, embedded>>

NextCollections == ListCollections

SpecCollections == InitCollections /\ [][NextCollections]_vars

\* ------------------------------------------------ the ingestion scripts
\* The entries of a collections file: two complete ones and one without id.
FileEntries ==
    << [id |-> "apollo-11", name |-> "Apollo 11", tags |-> <<"nasa">>,
        urls |-> <<"a11-plan", "a11-log">>],
       [id |-> "", name |-> "Gemini", tags |-> <<>>, urls |-> <<"a17-log">>],
       [id |-> "apollo-13", name |-> "Apollo 13", tags |-> <<"nasa", "moon">>,
        urls |-> <<"a13-log">>] >>

Files == Picks(FileEntries, Len(FileEntries))

\* The database before the scripts run: empty, or holding an earlier run.
InitIngest ==
    /\ ENABLE_PGVECTOR = TRUE
    /\ vector_stores = <<"pgvector-1">>
    /\ documents \in {<<>>, <<RowUniverse[1]>>}
    /\ pc = "idle"
    /\ req = NoRequest
    /\ env = NoEnv
    /\ ret = NoReturn
    /\ response = NoResponse
    /\ prev = <<>>
    /\ uuidCount = 0
    /\ ENABLE_PINECONE = FALSE
    /\ PINECONE_API_KEY = ""
    /\ status = NoStatus
    /\ collections_table \in {None, Some(<<>>), Some(<<CollectionRows[1]>>)}
    /\ collections = NoCollections
    /\ loaded = NotLoaded
    /\ embedded = NotEmbedded

\* One call of create_embeddings, on texts and endpoint answers drawn here.
CreateEmbeddings ==
    /\ loaded = NotLoaded
    /\ embedded = NotEmbedded
    /\ \E texts \in Picks(ChunkTexts, MaxTexts) :
         \E answers \in [1..BatchCount(Len(texts)) -> BatchAnswers] :
            embedded' = <<[texts |-> texts, answers |-> answers,
                           out |-> create_embeddings(texts, answers)]>>
    /\ UNCHANGED <<ENABLE_PGVECTOR, vector_stores, documents, pc, req, env, ret,
                   response, prev, uuidCount, ENABLE_PINECONE, PINECONE_API_KEY,
                   status, collections_table, collections, loaded>>

\* load_collections up to its loop: the file is read.  outcomes[i] is how the
\* run for entry i goes; an entry that is skipped has no run.
LoadCollections ==
    /\ loaded = NotLoaded
    /\ embedded = NotEmbedded
    /\ \E file \in Files, drop_tables \in BOOLEAN :
         \E outcomes \in [1..Len(file) -> IngestOutcomes] :
            /\ \A i \in 1..Len(file) : Incomplete(file[i]) => outcomes[i] = "ok"
            /\ loaded' = <<[file |-> file, drop_tables |-> drop_tables,
                            outcomes |-> outcomes, done |-> 0, drops |-> 0]>>
    /\ UNCHANGED <<ENABLE_PGVECTOR, vector_stores, documents, pc, req, env, ret,
                   response, prev, uuidCount, ENABLE_PINECONE, PINECONE_API_KEY,
                   status, collections_table, collections, embedded>>

\* One turn of the loop of load_collections: the entry is skipped, or
\* pdf_to_pgvector.py runs for it (subprocess.run) and its failure is logged.
IngestNext ==
    /\ loaded # NotLoaded
    /\ loaded[1].done < Len(loaded[1].file)
    /\ LET l == loaded[1]
           entry == l.file[l.done + 1]
           drop == DropForEntry(l.drop_tables, l.drops)
           db == process_pdfs([documents |-> documents,
                               collections |-> collections_table],
                              entry, drop, l.outcomes[l.done + 1])
       IN  IF Incomplete(entry)
           THEN /\ loaded' = <<[l EXCEPT !.done = @ + 1]>>
                /\ UNCHANGED <<documents, collections_table>>
           ELSE /\ loaded' = <<[l EXCEPT !.done = @ + 1,
                                         !.drops = IF drop /\ l.outcomes[l.done + 1] # "connect"
                                                   THEN @ + 1 ELSE @]>>
                /\ documents' = db.documents
                /\ collections_table' = db.collections
    /\ UNCHANGED <<ENABLE_PGVECTOR, vector_stores, pc, req, env, ret, response, prev,
                   uuidCount, ENABLE_PINECONE, PINECONE_API_KEY, status, collections,
                   embedded>>

NextIngest == CreateEmbeddings \/ LoadCollections \/ IngestNext

SpecIngest == InitIngest /\ [][NextIngest]_vars

\* ------------------------------------------------------------ the claims
Responded == pc = "responded"

Max(a, b) == IF a > b THEN a ELSE b

\* The number of documents the stores search queried handed back.
DocsHandedBack ==
    LET Count(s) == IF s \in Elems(ret.queried)
                    THEN Len(_search_store(env.responses[s])) ELSE 0
    IN  Count("pgvector-1") + Count("pinecone-1")

\* Float comparison a >= b: False when either is NaN.
PyGE(a, b) == a # NaN /\ b # NaN /\ a >= b

SortedDescending(results) ==
    \A i \in 1..(Len(results) - 1) :
        PyGE(results[i].similarity, results[i + 1].similarity)

C2_NonPositiveKIsEmpty ==
    (Responded /\ req.k <= 0) => (ret.results = <<>> /\ ~ret.raised)

\* C3 as stated: in the list search returns, and in the list the route returns
\* after cleaning NaN, every adjacent pair has similarity[i] >= similarity[i+1].
C3_SortedDescending ==
    Responded => (SortedDescending(ret.results) /\ SortedDescending(response.results))

RowOf(m) == CHOOSE i \in 1..Len(documents) : documents[i].content = m.content
DocOf(m) ==
    LET docs == env.responses[m.source_id].docs
    IN  docs[CHOOSE i \in 1..Len(docs) : docs[i].page_content = m.content]

DirectOutput ==
    _direct_pgvector_search(req.k, req.collection_ids, req.tags, documents,
                            env.sqlFault, env.qvec, 0)

\* a and b are the same match up to the generated identifiers.
SameButIds(a, b) ==
    [a EXCEPT !.documentId = "", !.chunkId = ""]
    = [b EXCEPT !.documentId = "", !.chunkId = ""]

Generated(id) == id \in Elems(UuidPool)

\* C6: when the SQL backend is enabled and not excluded by backend_ids and the
\* direct SQL search yields at least one match, search returns exactly that
\* search's list, in its order, every match attributed to pgvector-1, and no
\* store is queried.
C6_FastPathShortCircuit ==
    (/\ Responded
     /\ ENABLE_PGVECTOR
     /\ req.backend_ids = None \/ "pgvector-1" \in Elems(req.backend_ids[1])
     /\ ~DirectOutput.raised /\ DirectOutput.results # <<>>)
    => /\ ret.path = "fast"
       /\ ret.queried = <<>>
       /\ ret.results = ret.direct.results
       /\ Len(ret.results) = Len(DirectOutput.results)
       /\ \A i \in 1..Len(ret.results) :
            /\ SameButIds(ret.results[i], DirectOutput.results[i])
            /\ ret.results[i].source_id = "pgvector-1"

\* C6 witness: the fast path returned while another store is registered and
\* selected by backend_ids.
C6_Witness ==
    /\ Responded /\ ret.path = "fast" /\ Len(ret.results) = 2
    /\ req.backend_ids = Some(<<"pinecone-1", "pgvector-1">>)
    /\ "pinecone-1" \in Elems(vector_stores)
    /\ env.responses["pinecone-1"].docs # <<>>

\* The identifiers the record behind a match stores (ABSENT when it has none).
StoredMetadata(m, path) ==
    IF path = "fast" THEN RowMetadata(documents[RowOf(m)]) ELSE DocMetadata(DocOf(m))

\* C7 as stated: the same request served again over unchanged storage returns
\* the same ordered list, field for field.
C7_RepeatIsIdentical ==
    (Responded /\ prev # <<>>) => ret.results = prev[1].ret.results

\* C7 amended: the same request served again, storage unchanged and the
\* backends answering as before, returns the same ordered list field for field
\* except that a record lacking a documentId or chunkId gets a newly generated
\* one for that field on every call.
C7_RepeatIsIdenticalButGeneratedIds ==
    (Responded /\ prev # <<>>) =>
        /\ ret.raised = prev[1].ret.raised
        /\ ret.path = prev[1].ret.path
        /\ Len(ret.results) = Len(prev[1].ret.results)
        /\ \A i \in 1..Len(ret.results) :
             LET a == prev[1].ret.results[i]
                 b == ret.results[i]
                 md == StoredMetadata(b, ret.path)
             IN  /\ SameButIds(a, b)
                 /\ IF md.documentId = ABSENT
                    THEN Generated(a.documentId) /\ Generated(b.documentId)
                         /\ a.documentId # b.documentId
                    ELSE a.documentId = b.documentId /\ b.documentId = md.documentId
                 /\ IF md.chunkId = ABSENT
                    THEN Generated(a.chunkId) /\ Generated(b.chunkId)
                         /\ a.chunkId # b.chunkId
                    ELSE a.chunkId = b.chunkId /\ b.chunkId = md.chunkId

\* C7 witness: a repeated request whose list holds a record with stored
\* identifiers and a record without.
C7_Witness ==
    /\ Responded /\ prev # <<>> /\ Len(ret.results) = 2
    /\ \E i, j \in 1..2 :
         /\ StoredMetadata(ret.results[i], ret.path).documentId = ABSENT
         /\ StoredMetadata(ret.results[j], ret.path).documentId # ABSENT

\* C8 as stated: when the embedding call raises during a search, search
\* propagates a failure to its caller instead of returning a list.
C8_EmbeddingFailureIsFatal ==
    (Responded /\ env.sqlFault = "embed") => ret.raised

\* C8 amended: an embedding failure is fatal to the direct SQL search only:
\* _direct_pgvector_search re-raises it, search catches it, goes on to the
\* generic path and returns a list to its caller.
C8_EmbeddingFailureFallsBack ==
    (Responded /\ env.sqlFault = "embed") =>
        /\ ret.direct.attempted /\ ret.direct.raised /\ ret.direct.results = <<>>
        /\ ~ret.raised /\ ~response.raised
        /\ ret.path = "generic"
        /\ ret.queried = StoresToSearch(req.backend_ids, vector_stores)

\* C8 witness: the embedding call raised and search returned a store's matches.
C8_Witness ==
    /\ Responded /\ env.sqlFault = "embed" /\ ret.results # <<>>

MatchesFrom(s) == SelectSeq(ret.results, LAMBDA m : m.source_id = s)

\* C10: when one store raises during the generic path while the other one
\* answers, no exception reaches the caller, no match comes from the failed
\* store, and the matches returned are the answering store's: all of its
\* documents when every one of them parses and they number at most k.
C10_FailedStoreDoesNotAbortOthers ==
    \A failed, healthy \in StoreIds :
        (/\ Responded /\ ret.path = "generic"
         /\ failed # healthy
         /\ {failed, healthy} \subseteq Elems(ret.queried)
         /\ env.responses[failed].raises /\ ~env.responses[healthy].raises)
        => /\ ~ret.raised /\ ~response.raised
           /\ MatchesFrom(failed) = <<>>
           /\ MatchesFrom(healthy) = ret.results
           /\ LET docs == env.responses[healthy].docs
              IN  (Len(docs) <= req.k /\ \A i \in 1..Len(docs) : DocParses(docs[i])) =>
                    /\ Len(ret.results) = Len(docs)
                    /\ \A i \in 1..Len(docs) :
                         \E j \in 1..Len(ret.results) :
                             /\ ret.results[j].content = docs[i].page_content
                             /\ ret.results[j].similarity = DocSimilarity(docs[i])

\* C10 witness: one store raised, the other handed back two documents and both
\* are returned.
C10_Witness ==
    /\ Responded /\ ret.path = "generic" /\ Len(ret.queried) = 2
    /\ env.responses["pgvector-1"].raises
    /\ Len(env.responses["pinecone-1"].docs) = 2
    /\ Len(ret.results) = 2

\* The rows the SQL query of this request handed back.
RowsHandedBack ==
    SqlQuery(documents, env.qvec, req.k, req.collection_ids, req.tags)

DirectRan == Responded /\ ret.direct.attempted /\ ~ret.direct.raised

\* C11 as stated: a record that fails to parse is skipped and does not abort
\* its batch: on the SQL fast path and on the generic path alike, every
\* well-formed record the same backend handed back, before or after the
\* malformed one, is among the candidates (here the cut drops nothing: the
\* records handed back number at most k).
C11_MalformedRecordIsSkipped ==
    /\ DirectRan =>
         \A i \in 1..Len(RowsHandedBack) :
             RowParses(RowsHandedBack[i]) =>
                 \E j \in 1..Len(ret.direct.results) :
                     ret.direct.results[j].content = RowsHandedBack[i].content
    /\ (Responded /\ ret.path = "generic" /\ DocsHandedBack <= req.k) =>
         \A s \in Elems(ret.queried) :
             LET docs == _search_store(env.responses[s])
             IN  \A i \in 1..Len(docs) :
                     DocParses(docs[i]) =>
                         \E j \in 1..Len(ret.results) :
                             /\ ret.results[j].source_id = s
                             /\ ret.results[j].content = docs[i].page_content

\* The identifier a record stores under a key is missing, null or empty.
Lacks(id) == id \in {ABSENT, NULL, ""}

\* The identifiers of a list of matches that were generated, one entry per
\* match and field.
GeneratedIds(results) ==
    {<<i, f>> \in (1..Len(results)) \X {"documentId", "chunkId"} :
        Generated(IF f = "documentId" THEN results[i].documentId
                  ELSE results[i].chunkId)}

IdAt(results, p) ==
    IF p[2] = "documentId" THEN results[p[1]].documentId ELSE results[p[1]].chunkId

\* C12 as stated: every match search returns carries a non-empty documentId
\* and a non-empty chunkId, a generated one when the record's is missing, null
\* or empty, and no generated identifier appears on two matches.
C12_IdentifiersNonEmptyAndFresh ==
    Responded =>
        /\ \A i \in 1..Len(ret.results) :
             LET m == ret.results[i]
                 md == StoredMetadata(m, ret.path)
             IN  /\ m.documentId # "" /\ m.chunkId # ""
                 /\ Lacks(md.documentId) => Generated(m.documentId)
                 /\ Lacks(md.chunkId) => Generated(m.chunkId)
        /\ \A p, q \in GeneratedIds(ret.results) :
             (p[1] # q[1]) => IdAt(ret.results, p) # IdAt(ret.results, q)

\* C13 as stated: for every search call with tags = {a}, on either path, no
\* returned match has a tag set that excludes a.
C13_TagFilterRespected ==
    (Responded /\ req.tags # None /\ Len(req.tags[1]) = 1) =>
        \A i \in 1..Len(ret.results) : req.tags[1][1] \in Elems(ret.results[i].tags)

\* C14 as stated: for every search call with collectionIds = {c}, on either
\* path, no returned match belongs to a collection other than c.
C14_CollectionFilterRespected ==
    (Responded /\ req.collection_ids # None /\ Len(req.collection_ids[1]) = 1) =>
        \A i \in 1..Len(ret.results) :
            LET md == StoredMetadata(ret.results[i], ret.path)
            IN  md.collection \notin {ABSENT, NULL} =>
                    md.collection = req.collection_ids[1][1]

\* {"$in": values} as a store reads it: the record's field, or one of its
\* elements when the field is a list, is one of the values; the keys of the
\* dictionary are ANDed and None keeps every record.
FilterDictKeeps(md, filter_dict) ==
    /\ filter_dict.collection # None =>
         /\ md.collection \notin {ABSENT, NULL}
         /\ md.collection \in Elems(filter_dict.collection[1])
    /\ filter_dict.tags # None =>
         Elems(md.tags) \cap Elems(filter_dict.tags[1]) # {}

\* C15 as stated: for any fixed record the filter policy gives the same
\* inclusion decision compiled into the WHERE clause of the fast path as
\* compiled into the filter dictionary handed to a generic backend.
C15_SameDecisionInSqlAndFilterDict ==
    DirectRan =>
        \A i \in 1..Len(documents) :
            EvalWhere(ret.direct.sql.where, documents[i]).val
            = FilterDictKeeps(RowMetadata(documents[i]),
                              FilterDict(req.collection_ids, req.tags))

\* Two optional lists with the same number of values.
SameShape(a, b) ==
    IF a = None \/ b = None THEN a = b ELSE Len(a[1]) = Len(b[1])

\* C17 as stated: filter values reach the query only as bound parameters: the
\* SQL text the fast path executes is the same for any two requests that
\* differ only in the values of their tags or collection ids.
C17_FilterValuesAreBound ==
    (Responded /\ ret.direct.sql # NoSql) =>
        \A f \in FilterValueChoices :
            (SameShape(f.collection_ids, req.collection_ids)
             /\ SameShape(f.tags, req.tags)) =>
                SqlText(req.k, f.collection_ids, f.tags, env.qvec).where
                = ret.direct.sql.where

\* A backend is configured when it is registered or its flag enables it
\* (the SQL backend is searched on ENABLE_PGVECTOR, registered or not).
Configured(id) ==
    id \in Elems(vector_stores) \/ (id = "pgvector-1" /\ ENABLE_PGVECTOR)

C18_SearchLeavesRegistryUnchanged ==
    [][vector_stores' = vector_stores]_vars

\* C18 witness: two searches were served with both stores registered, the
\* direct SQL search raised and a store's matches were returned.
C18_Witness ==
    /\ Responded /\ prev # <<>> /\ Len(vector_stores) = 2
    /\ ret.direct.raised /\ ret.results # <<>>
    /\ req.backend_ids = Some(<<"pinecone-1", "pgvector-1">>)

\* C20: GET /search returns the list search produced, the same matches in the
\* same order with every field unchanged, except that a NaN or None
\* similarity is replaced by 0.0.
C20_RouteReturnsSearchListCleaned ==
    Responded =>
        /\ response.raised = ret.raised
        /\ Len(response.results) = Len(ret.results)
        /\ \A i \in 1..Len(ret.results) :
             response.results[i]
             = [ret.results[i] EXCEPT
                  !.similarity = IF @ \in {NaN, NoneVal} THEN 0 ELSE @]

\* C20 witness: search returned a NaN match followed by a match with a
\* negative similarity; the route returned 0.0 and the negative value.
C20_Witness ==
    /\ Responded /\ Len(ret.results) = 2
    /\ ret.results[1].similarity = NaN /\ ret.results[2].similarity < 0
    /\ response.results[1].similarity = 0
    /\ response.results[2] = ret.results[2]

Checked == status # NoStatus

StatusEntries == Elems(status[1].out.pgvector \o status[1].out.pinecone)

\* C19: check_connections never raises and reports one entry per enabled
\* backend (pgvector on ENABLE_PGVECTOR, pinecone on ENABLE_PINECONE with an
\* API key), each with status ok, warning or error; an unreachable backend
\* is recorded as error and the other backend's entry is still produced; a
\* reachable SQL backend without its documents table is recorded as warning.
C19_StatusPerBackendNeverRaises ==
    Checked =>
        LET h == status[1].env
            out == status[1].out
        IN  /\ ~out.raised
            /\ (out.pgvector # None) = ENABLE_PGVECTOR
            /\ (out.pinecone # None) = (ENABLE_PINECONE /\ PINECONE_API_KEY # "")
            /\ \A e \in StatusEntries : e.status \in {"ok", "warning", "error"}
            /\ (ENABLE_PGVECTOR /\ h.dbFault = "connect") =>
                   out.pgvector[1].status = "error"
            /\ (out.pinecone # None /\ h.pineconeFault = "stats") =>
                   out.pinecone[1].status = "error"
            /\ (ENABLE_PGVECTOR /\ h.dbFault \in {"none", "close"} /\ ~h.tableExists) =>
                   out.pgvector[1].status = "warning"
            /\ out.status = (IF \E e \in StatusEntries : e.status = "error"
                             THEN "error" ELSE "ok")

\* C19 witness: the database is unreachable and recorded as error while
\* Pinecone's entry is produced with status ok.
C19_Witness ==
    /\ Checked /\ status[1].env.dbFault = "connect"
    /\ status[1].out.pgvector # None /\ status[1].out.pgvector[1].status = "error"
    /\ status[1].out.pinecone # None /\ status[1].out.pinecone[1].status = "ok"
    /\ status[1].out.status = "error"

Listed == collections # NoCollections

RowsRead ==
    /\ Listed /\ ENABLE_PGVECTOR /\ collections_table # None
    /\ collections[1].dbFault \in {"none", "close"}

Candidates ==
    {s \in Elems(vector_stores) :
       ~Truthy(req.backend_ids) \/ s \in Elems(req.backend_ids[1])}

\* C22: when the fast path is not attempted, raises or finds nothing, search
\* goes on to the generic path over exactly the candidate set, each candidate
\* asked once and no other store contributing, and returns the empty list
\* without asking any store when the set is empty.
C22_GenericPathOverCandidates ==
    (Responded /\ ~ret.direct.returned) =>
        /\ ~ret.raised
        /\ ret.path = "generic"
        /\ Elems(ret.queried) = Candidates
        /\ Len(ret.queried) = Cardinality(Candidates)
        /\ \A i \in 1..Len(ret.results) : ret.results[i].source_id \in Candidates
        /\ Candidates = {} => (ret.queried = <<>> /\ ret.results = <<>>)

C22_Witness ==
    /\ Responded /\ ret.path = "generic"
    /\ Truthy(req.backend_ids)
    /\ Candidates # {}
    /\ Candidates # Elems(vector_stores)
    /\ ret.direct.attempted
    /\ ret.results # <<>>

\* C26: for a search with a non-empty backend_ids, every match returned has
\* a source_id that backend_ids names, on the fast path and on the generic
\* path.
C26_MatchesComeFromRequestedBackends ==
    (Responded /\ Truthy(req.backend_ids)) =>
        \A i \in 1..Len(ret.results) :
            ret.results[i].source_id \in Elems(req.backend_ids[1])

C26_Witness ==
    /\ Responded /\ Truthy(req.backend_ids)
    /\ Cardinality(Elems(vector_stores)) = 2
    /\ Elems(req.backend_ids[1]) = {"pinecone-1"}
    /\ ret.results # <<>>
    /\ ENABLE_PGVECTOR /\ documents # <<>>

C26_WitnessFast ==
    /\ Responded /\ Truthy(req.backend_ids)
    /\ ret.path = "fast"
    /\ ret.results # <<>>

\* C27 as stated: every match returned has the source_id of a store that
\* get_vector_stores() lists.
C27_MatchesComeFromRegisteredBackends ==
    Responded =>
        \A i \in 1..Len(ret.results) :
            ret.results[i].source_id \in Elems(vector_stores)

\* The request with every [] replaced by an absent value.
Absent(opt) == IF opt = Some(<<>>) THEN None ELSE opt

WithoutEmptyLists(r) ==
    [r EXCEPT !.backend_ids = Absent(@), !.collection_ids = Absent(@),
              !.tags = Absent(@)]

\* C28: a [] for backend_ids, collection_ids or tags is treated as an absent
\* value: search returns what it returns for the request without the empty
\* lists, by the same path, asking the same stores with the same filter and
\* handing the same text to the database.
C28_EmptyListIsAbsent ==
    Responded =>
        /\ ret = search(ENABLE_PGVECTOR, vector_stores, WithoutEmptyLists(req),
                        documents, env, 0)
        /\ FilterDict(req.collection_ids, req.tags)
           = FilterDict(Absent(req.collection_ids), Absent(req.tags))

C28_Witness ==
    /\ Responded
    /\ req.backend_ids = Some(<<>>)
    /\ req.collection_ids = Some(<<>>)
    /\ req.tags = Some(<<>>)
    /\ ret.path = "generic"
    /\ Len(ret.queried) = 2
    /\ ret.results # <<>>

C28_WitnessFast ==
    /\ Responded
    /\ Some(<<>>) \in {req.backend_ids, req.collection_ids}
    /\ req.tags = Some(<<"nasa">>)
    /\ ret.path = "fast"

\* C23 as stated: the list the generic path returns does not depend on the
\* order in which the candidate stores are processed: the request with the
\* ids of backend_ids in the other order, against the same answers of the
\* stores, returns the same list (identifiers generated for a match apart).
C23_MergeIndependentOfBackendOrder ==
    (/\ Responded /\ prev # <<>>
     /\ ret.path = "generic" /\ prev[1].ret.path = "generic")
    => /\ Len(ret.results) = Len(prev[1].ret.results)
       /\ \A i \in 1..Len(ret.results) :
            SameButIds(ret.results[i], prev[1].ret.results[i])

\* C25 as stated: every database connection that _direct_pgvector_search,
\* check_connections or get_collections opened is closed when the operation
\* has returned or raised.
C25_ConnectionsAreClosed ==
    /\ Responded => ret.direct.closed = ret.direct.opened
    /\ Checked => PgvectorConnection(ENABLE_PGVECTOR, status[1].env).closed
                  = PgvectorConnection(ENABLE_PGVECTOR, status[1].env).opened
    /\ Listed => collections[1].out.closed = collections[1].out.opened

\* C24 as stated: no single store blocks search for ever: a search that has
\* started asking the stores eventually returns, also when the call of one
\* of them never completes.
C24_SearchEventuallyReturns == (pc = "searching") ~> (pc = "responded")

Embedded == embedded # NotEmbedded

\* The batch text i belongs to.
BatchOf(i) == ((i - 1) \div DEFAULT_BATCH_SIZE) + 1

\* C30 as stated: create_embeddings returns one vector for every text, in the
\* position of its text: the embedding the endpoint produced for that text,
\* or a zero vector when the text's batch failed or came back short.
C30_EmbeddingsPositionAligned ==
    Embedded =>
        LET e == embedded[1]
        IN  /\ Len(e.out) = Len(e.texts)
            /\ \A i \in 1..Len(e.texts) :
                 \/ e.out[i] = Embedding(e.texts[i])
                 \/ e.out[i] = ZeroVector /\ e.answers[BatchOf(i)] # "ok"

LoadFinished == loaded # NotLoaded /\ loaded[1].done = Len(loaded[1].file)

CollectionPresent(c) ==
    /\ collections_table # None
    /\ \E i \in 1..Len(collections_table[1]) : collections_table[1][i].id = c.id
    /\ \A u \in Elems(c.urls) :
         \E i \in 1..Len(documents) :
            /\ documents[i].content = u
            /\ documents[i].metadata.collection = c.id

\* C29 as stated: after load_collections has processed a file of several
\* complete collections whose runs all succeeded, the documents and the
\* collections row of every one of them are in the database, also when
\* drop_tables was requested, the tables being dropped at most once.
C29_EveryCollectionLoaded ==
    (/\ LoadFinished
     /\ Len(loaded[1].file) >= 2
     /\ \A i \in 1..Len(loaded[1].file) :
          ~Incomplete(loaded[1].file[i]) /\ loaded[1].outcomes[i] = "ok")
    => /\ \A c \in Elems(loaded[1].file) : CollectionPresent(c)
       /\ loaded[1].drops <= 1

====
